---- MODULE Spec2Model ----
(***************************************************************************)
(* Model of src/src/tlo/lm.py: Predictor (rule construction through        *)
(* when / otherwise / _coeff, evaluation through predict) and LinearModel  *)
(* (validation and the three composition types).                           *)
(*                                                                         *)
(* Python strings are sequences of one-character strings, so that the      *)
(* f-string formatting of _coeff and the expression text handed to         *)
(* DataFrame.eval are modelled by what they do.  DataFrame.eval is a       *)
(* tokenizer, a precedence parser (pandas' default parser, which rewrites  *)
(* & to `and` and | to `or`) and a row-wise evaluator.                     *)
(*                                                                         *)
(* Floats are modelled by integers; the logistic transform x / (1 + x) is  *)
(* kept as the exact ratio of its numerator and denominator.               *)
(***************************************************************************)
EXTENDS Integers, Sequences, FiniteSets, TLC

VARIABLES predictor, built, model, df, ret

vars == <<predictor, built, model, df, ret>>

----------------------------------------------------------------------------
(* Bounds of the model.                                                    *)

\* most rules one Predictor is given
MaxRules == 2
\* most rows of the table handed to predict
MaxRows == 2
\* most Predictor arguments of the LinearModel constructor
MaxPredictors == 2
\* most rules a Predictor of a LinearModel is given
ModelMaxRules == 1

----------------------------------------------------------------------------
(* Python values.  Every value is a record of the same shape, so values of *)
(* different Python types can be compared.                                 *)

PyNone == [t |-> "None", s |-> <<>>, n |-> 0, d |-> 1]
PyStr(chars) == [t |-> "str", s |-> chars, n |-> 0, d |-> 1]
PyBool(b) == [t |-> "bool", s |-> <<>>, n |-> IF b THEN 1 ELSE 0, d |-> 1]
PyNum(k) == [t |-> "num", s |-> <<>>, n |-> k, d |-> 1]
PyList == [t |-> "list", s |-> <<>>, n |-> 0, d |-> 1]
\* numpy.nan: the "no value" entry of an output column
NaN == [t |-> "nan", s |-> <<>>, n |-> 0, d |-> 1]
\* the float n / d, kept exact
PyRatio(k, m) == [t |-> "num", s |-> <<>>, n |-> k, d |-> m]

\* Python truthiness, as used by `if condition:`
Truthy(v) ==
    CASE v.t = "None" -> FALSE
      [] v.t = "str" -> Len(v.s) > 0
      [] v.t = "bool" -> v.n = 1
      [] v.t = "num" -> v.n # 0
      [] OTHER -> TRUE

----------------------------------------------------------------------------
(* Characters and strings.                                                 *)

DigitChars == {"0", "1", "2", "3", "4", "5", "6", "7", "8", "9"}
LetterChars ==
    {"a", "b", "c", "d", "e", "f", "g", "h", "i", "j", "k", "l", "m", "n",
     "o", "p", "q", "r", "s", "t", "u", "v", "w", "x", "y", "z",
     "A", "B", "C", "D", "E", "F", "G", "H", "I", "J", "K", "L", "M", "N",
     "O", "P", "Q", "R", "S", "T", "U", "V", "W", "X", "Y", "Z", "_"}

DigitOf(k) ==
    CASE k = 0 -> "0" [] k = 1 -> "1" [] k = 2 -> "2" [] k = 3 -> "3"
      [] k = 4 -> "4" [] k = 5 -> "5" [] k = 6 -> "6" [] k = 7 -> "7"
      [] k = 8 -> "8" [] k = 9 -> "9"

ValueOfDigit(c) == CHOOSE k \in 0..9 : DigitOf(k) = c

RECURSIVE NatStr(_)
NatStr(k) == IF k < 10 THEN <<DigitOf(k)>> ELSE NatStr(k \div 10) \o <<DigitOf(k % 10)>>

\* str(k) for an int k, as an f-string renders it
IntStr(k) == IF k < 0 THEN <<"-">> \o NatStr(0 - k) ELSE NatStr(k)

\* str.isnumeric(): at least one character and all of them numeric
IsNumeric(chars) == Len(chars) > 0 /\ \A i \in 1..Len(chars) : chars[i] \in DigitChars

\* the f-string rendering of a value placed in {...}
Format(v) ==
    CASE v.t = "str" -> v.s
      [] v.t = "num" -> IntStr(v.n)
      [] v.t = "bool" -> IF v.n = 1 THEN <<"T", "r", "u", "e">> ELSE <<"F", "a", "l", "s", "e">>
      [] OTHER -> <<"N", "o", "n", "e">>

\* the characters a condition may begin with to be taken as an expression fragment
OperatorChars == {"=", "<", ">", "~", "(", "."}

\* ' & (~@touched)'
TouchedSuffix == <<" ", "&", " ", "(", "~", "@", "t", "o", "u", "c", "h", "e", "d", ")">>
\* '~@touched'
NotTouched == <<"~", "@", "t", "o", "u", "c", "h", "e", "d">>

----------------------------------------------------------------------------
(* Predictor: construction.                                                *)

\* Predictor.__init__
NewPredictor(property_name) ==
    [property_name |-> property_name,
     conditions |-> <<>>,
     else_condition_supplied |-> FALSE]

\* the text _coeff gives a numeric (non-string, non-bool) condition: the
\* f-string has no closing parenthesis
NumberCondition(name, condition) ==
    <<"(">> \o name \o <<" ", "=", "=", " ">> \o Format(condition)

\* StringCondition with the quoting of a plain literal forgotten
StringCondition_Unquoted(name, condition) ==
    IF condition.s[1] \in OperatorChars
    THEN <<"(">> \o name \o condition.s \o <<")">>
    ELSE <<"(">> \o name \o <<" ", "=", "=", " ">> \o condition.s \o <<")">>

\* the text _coeff gives a string condition
StringCondition(name, condition) ==
    IF condition.s[1] \in OperatorChars
    THEN <<"(">> \o name \o condition.s \o <<")">>
    ELSE IF IsNumeric(condition.s)
         THEN <<"(">> \o name \o <<" ", "=", "=", " ">> \o condition.s \o <<")">>
         ELSE <<"(">> \o name \o <<" ", "=", "=", " ", "\"">> \o condition.s \o <<"\"", ")">>

\* the text _coeff gives a bool condition
BoolCondition(name, condition) ==
    <<"(">> \o name \o <<" ", "=", "=", " ">> \o Format(condition) \o <<")">>

\* Predictor._coeff(condition, coefficient); otherwise(value) passes condition None.
\* The result is the exception raised ("none" when the call returns) and the
\* Predictor after the call.
Coeff(self, condition, coefficient) ==
    LET append(c) == [self EXCEPT !.conditions = Append(@, [cond |-> c, coef |-> coefficient])]
        name == self.property_name.s
    IN  IF self.property_name.t = "None"
        THEN [raised |-> "none", self |-> append(condition)]
        ELSE CASE condition.t = "str" ->
                    IF Len(condition.s) = 0
                    THEN [raised |-> "IndexError", self |-> self]
                    ELSE [raised |-> "none",
                          self |-> append(PyStr(StringCondition(name, condition)))]
               [] condition.t = "bool" ->
                    [raised |-> "none", self |-> append(PyStr(BoolCondition(name, condition)))]
               [] condition.t = "num" ->
                    [raised |-> "none", self |-> append(PyStr(NumberCondition(name, condition)))]
               [] condition.t = "None" ->
                    IF self.else_condition_supplied
                    THEN [raised |-> "AssertionError", self |-> self]
                    ELSE [raised |-> "none",
                          self |-> [self EXCEPT
                                      !.else_condition_supplied = TRUE,
                                      !.conditions = Append(@, [cond |-> PyStr(<<>>),
                                                                coef |-> coefficient])]]
               [] OTHER -> [raised |-> "RuntimeError", self |-> self]

----------------------------------------------------------------------------
(* DataFrame.eval: the expression language.  The modelled language has     *)
(* names, integer and string literals, @locals, grouping, ~, the           *)
(* comparisons and & and |.  Method-call fragments (a leading '.') and     *)
(* ordering of strings are outside it and are rejected.                    *)

RECURSIVE ScanEnd(_, _, _)
\* the first index from i on whose character is not in `chars`
ScanEnd(s, i, chars) ==
    IF i > Len(s) \/ s[i] \notin chars THEN i ELSE ScanEnd(s, i + 1, chars)

RECURSIVE ScanQuote(_, _)
\* the index of the next double quote from i on (Len(s) + 1 when there is none)
ScanQuote(s, i) ==
    IF i > Len(s) \/ s[i] = "\"" THEN i ELSE ScanQuote(s, i + 1)

Token(kind, chars) == [k |-> kind, v |-> chars]

RECURSIVE Tokens(_, _)
\* the tokens of s from index i on; an unreadable character ends them with a "bad" token
Tokens(s, i) ==
    IF i > Len(s) THEN <<>>
    ELSE LET c == s[i]
         IN  CASE c = " " -> Tokens(s, i + 1)
               [] c \in LetterChars ->
                    LET j == ScanEnd(s, i, LetterChars \cup DigitChars)
                    IN  <<Token("name", SubSeq(s, i, j - 1))>> \o Tokens(s, j)
               [] c \in DigitChars ->
                    LET j == ScanEnd(s, i, DigitChars)
                    IN  <<Token("num", SubSeq(s, i, j - 1))>> \o Tokens(s, j)
               [] c = "\"" ->
                    LET j == ScanQuote(s, i + 1)
                    IN  IF j > Len(s) THEN <<Token("bad", <<c>>)>>
                        ELSE <<Token("str", SubSeq(s, i + 1, j - 1))>> \o Tokens(s, j + 1)
               [] c \in {"=", "<", ">", "!"} ->
                    IF i < Len(s) /\ s[i + 1] = "="
                    THEN <<Token("op", <<c, "=">>)>> \o Tokens(s, i + 2)
                    ELSE <<Token("op", <<c>>)>> \o Tokens(s, i + 1)
               [] c \in {"(", ")", "~", "&", "|", "@"} ->
                    <<Token("op", <<c>>)>> \o Tokens(s, i + 1)
               [] OTHER -> <<Token("bad", <<c>>)>>

IsOp(ts, p, chars) == p <= Len(ts) /\ ts[p].k = "op" /\ ts[p].v = chars

CompareOps == {<<"=", "=">>, <<"!", "=">>, <<"<">>, <<"<", "=">>, <<">">>, <<">", "=">>}

ParseFail == [ok |-> FALSE, node |-> [op |-> "none"], pos |-> 0]
Parsed(node, pos) == [ok |-> TRUE, node |-> node, pos |-> pos]

\* binding strength: | (read as `or`) < & (read as `and`) < comparison < ~
Precedence(op) ==
    CASE op = <<"|">> -> 1
      [] op = <<"&">> -> 2
      [] op \in CompareOps -> 3
      [] op = <<"~">> -> 4
      [] OTHER -> 0

BinaryOps == CompareOps \cup {<<"&">>, <<"|">>}

Front(q) == SubSeq(q, 1, Len(q) - 1)

\* the operand stack after the operator op has taken its operands from it
ApplyOp(op, out) ==
    LET n == Len(out)
    IN  IF op = <<"~">>
        THEN Append(Front(out), [op |-> "not", e |-> out[n]])
        ELSE Append(SubSeq(out, 1, n - 2),
                    CASE op = <<"|">> -> [op |-> "or", l |-> out[n - 1], r |-> out[n]]
                      [] op = <<"&">> -> [op |-> "and", l |-> out[n - 1], r |-> out[n]]
                      [] OTHER -> [op |-> "cmp", c |-> op, l |-> out[n - 1], r |-> out[n]])

RECURSIVE Reduce(_, _, _)
\* apply the pending operators that bind at least as strongly as `strength`,
\* down to the innermost open parenthesis
Reduce(ops, out, strength) ==
    IF Len(ops) > 0 /\ Precedence(ops[Len(ops)]) >= strength
    THEN Reduce(Front(ops), ApplyOp(ops[Len(ops)], out), strength)
    ELSE [ops |-> ops, out |-> out]

RECURSIVE ParseFrom(_, _, _, _, _)
\* operator-precedence parse of the tokens from p on; `ops` are the pending
\* operators and open parentheses, `out` the finished subtrees, and `operand`
\* says that an operand must come next
ParseFrom(ts, p, ops, out, operand) ==
    IF p > Len(ts)
    THEN IF operand THEN ParseFail
         ELSE LET r == Reduce(ops, out, 1)
              IN  IF Len(r.ops) = 0 THEN Parsed(r.out[1], p) ELSE ParseFail
    ELSE IF operand
         THEN CASE ts[p].k \in {"name", "num", "str"} ->
                     ParseFrom(ts, p + 1, ops, Append(out, [op |-> ts[p].k, v |-> ts[p].v]), FALSE)
                [] IsOp(ts, p, <<"@">>) ->
                     IF p < Len(ts) /\ ts[p + 1].k = "name"
                     THEN ParseFrom(ts, p + 2, ops,
                                    Append(out, [op |-> "local", v |-> ts[p + 1].v]), FALSE)
                     ELSE ParseFail
                [] IsOp(ts, p, <<"~">>) \/ IsOp(ts, p, <<"(">>) ->
                     ParseFrom(ts, p + 1, Append(ops, ts[p].v), out, TRUE)
                [] OTHER -> ParseFail
         ELSE CASE ts[p].k = "op" /\ ts[p].v \in BinaryOps ->
                     LET r == Reduce(ops, out, Precedence(ts[p].v))
                     IN  ParseFrom(ts, p + 1, Append(r.ops, ts[p].v), r.out, TRUE)
                [] IsOp(ts, p, <<")">>) ->
                     LET r == Reduce(ops, out, 1)
                     IN  IF Len(r.ops) > 0
                         THEN ParseFrom(ts, p + 1, Front(r.ops), r.out, FALSE)
                         ELSE ParseFail
                [] OTHER -> ParseFail

\* the syntax tree of the expression text s, or a failure (SyntaxError)
Parse(s) ==
    LET ts == Tokens(s, 1)
    IN  IF Len(ts) = 0 \/ ts[Len(ts)].k = "bad" THEN ParseFail
        ELSE ParseFrom(ts, 1, <<>>, <<>>, TRUE)

RECURSIVE NumVal(_)
NumVal(chars) ==
    IF Len(chars) = 0 THEN 0
    ELSE 10 * NumVal(SubSeq(chars, 1, Len(chars) - 1)) + ValueOfDigit(chars[Len(chars)])

TrueName == <<"T", "r", "u", "e">>
FalseName == <<"F", "a", "l", "s", "e">>
TouchedName == <<"t", "o", "u", "c", "h", "e", "d">>

RECURSIVE Resolves(_, _)
\* every name of the tree is a column of the table or a constant, and every
\* @local is the caller's `touched` (else UndefinedVariableError)
Resolves(node, columns) ==
    CASE node.op \in {"or", "and", "cmp"} -> Resolves(node.l, columns) /\ Resolves(node.r, columns)
      [] node.op = "not" -> Resolves(node.e, columns)
      [] node.op = "name" -> node.v \in columns \cup {TrueName, FalseName}
      [] node.op = "local" -> node.v = TouchedName
      [] OTHER -> TRUE

TypeError == [t |-> "TypeError", s |-> <<>>, n |-> 0, d |-> 1]
IsNumber(v) == v.t \in {"num", "bool"}

\* one comparison of two scalars, as numpy compares elementwise
Compare(c, a, b) ==
    LET equal == \/ IsNumber(a) /\ IsNumber(b) /\ a.n = b.n
                 \/ a.t = "str" /\ b.t = "str" /\ a.s = b.s
    IN  IF a.t = "TypeError" \/ b.t = "TypeError" THEN TypeError
        ELSE CASE c = <<"=", "=">> -> PyBool(equal)
               [] c = <<"!", "=">> -> PyBool(~equal)
               [] OTHER ->
                    IF IsNumber(a) /\ IsNumber(b)
                    THEN CASE c = <<"<">> -> PyBool(a.n < b.n)
                           [] c = <<"<", "=">> -> PyBool(a.n <= b.n)
                           [] c = <<">">> -> PyBool(a.n > b.n)
                           [] OTHER -> PyBool(a.n >= b.n)
                    ELSE TypeError

RECURSIVE EvalRow(_, _, _)
\* the value of the tree on one row; `touched` is that row's entry of the local
EvalRow(node, row, touched) ==
    CASE node.op = "or" ->
             LET a == EvalRow(node.l, row, touched)
                 b == EvalRow(node.r, row, touched)
             IN  IF a.t = "bool" /\ b.t = "bool" THEN PyBool(a.n = 1 \/ b.n = 1) ELSE TypeError
      [] node.op = "and" ->
             LET a == EvalRow(node.l, row, touched)
                 b == EvalRow(node.r, row, touched)
             IN  IF a.t = "bool" /\ b.t = "bool" THEN PyBool(a.n = 1 /\ b.n = 1) ELSE TypeError
      [] node.op = "cmp" ->
             Compare(node.c, EvalRow(node.l, row, touched), EvalRow(node.r, row, touched))
      [] node.op = "not" ->
             LET a == EvalRow(node.e, row, touched)
             IN  CASE a.t = "bool" -> PyBool(a.n = 0)
                   [] a.t = "num" -> PyNum(0 - a.n - 1)
                   [] OTHER -> TypeError
      [] node.op = "name" ->
             IF node.v = TrueName THEN PyBool(TRUE)
             ELSE IF node.v = FalseName THEN PyBool(FALSE)
             ELSE row[node.v]
      [] node.op = "num" -> PyNum(NumVal(node.v))
      [] node.op = "str" -> PyStr(node.v)
      [] OTHER -> PyBool(touched)

\* df.eval(text) with the local `touched`: the exception raised, or the mask
DfEval(table, text, touched) ==
    LET e == Parse(text)
        n == Len(table.rows)
    IN  IF ~e.ok THEN [raised |-> "SyntaxError", mask |-> <<>>]
        ELSE IF ~Resolves(e.node, table.columns)
             THEN [raised |-> "UndefinedVariableError", mask |-> <<>>]
             ELSE LET vals == [i \in 1..n |-> EvalRow(e.node, table.rows[i], touched[i])]
                  IN  IF \E i \in 1..n : vals[i].t # "bool"
                      THEN [raised |-> "TypeError", mask |-> <<>>]
                      ELSE [raised |-> "none", mask |-> [i \in 1..n |-> vals[i].n = 1]]

----------------------------------------------------------------------------
(* Predictor: evaluation.                                                  *)

RECURSIVE PredictFrom(_, _, _, _, _)
\* the loop of Predictor.predict from rule k on
PredictFrom(conditions, table, k, output, touched) ==
    IF k > Len(conditions) THEN [raised |-> "none", col |-> output]
    ELSE LET condition == conditions[k].cond
             value == conditions[k].coef
         IN  IF Truthy(condition) /\ condition.t # "str"
             THEN [raised |-> "TypeError", col |-> <<>>]
             ELSE LET text == IF Truthy(condition) THEN condition.s \o TouchedSuffix
                              ELSE NotTouched
                      m == DfEval(table, text, touched)
                  IN  IF m.raised # "none" THEN [raised |-> m.raised, col |-> <<>>]
                      ELSE PredictFrom(conditions, table, k + 1,
                               [i \in 1..Len(table.rows) |->
                                   IF m.mask[i] THEN value ELSE output[i]],
                               [i \in 1..Len(table.rows) |-> touched[i] \/ m.mask[i]])

RECURSIVE PredictFrom_SharedTouched(_, _, _, _, _)
\* PredictFrom with `touched` kept as one flag for the whole table
PredictFrom_SharedTouched(conditions, table, k, output, touched) ==
    IF k > Len(conditions) THEN [raised |-> "none", col |-> output]
    ELSE LET condition == conditions[k].cond
             value == conditions[k].coef
         IN  IF Truthy(condition) /\ condition.t # "str"
             THEN [raised |-> "TypeError", col |-> <<>>]
             ELSE LET text == IF Truthy(condition) THEN condition.s \o TouchedSuffix
                              ELSE NotTouched
                      m == DfEval(table, text, touched)
                  IN  IF m.raised # "none" THEN [raised |-> m.raised, col |-> <<>>]
                      ELSE PredictFrom_SharedTouched(conditions, table, k + 1,
                               [i \in 1..Len(table.rows) |->
                                   IF m.mask[i] THEN value ELSE output[i]],
                               [i \in 1..Len(table.rows) |->
                                   \E j \in 1..Len(table.rows) : touched[j] \/ m.mask[j]])

PredictorPredict_SharedTouched(self, table) ==
    PredictFrom_SharedTouched(self.conditions, table, 1,
                              [i \in 1..Len(table.rows) |-> NaN],
                              [i \in 1..Len(table.rows) |-> FALSE])

\* Predictor.predict(df): the exception raised, or the output column
PredictorPredict(self, table) ==
    PredictFrom(self.conditions, table, 1,
                [i \in 1..Len(table.rows) |-> NaN],
                [i \in 1..Len(table.rows) |-> FALSE])

----------------------------------------------------------------------------
(* LinearModel.                                                            *)

LinearModelTypes == {"ADDITIVE", "LOGISTIC", "MULTIPLICATIVE"}

\* no LinearModel has been constructed yet
NoModel == [constructed |-> FALSE, lm_type |-> "none", intercept |-> PyNone, predictors |-> <<>>]

\* LinearModel.__init__(lm_type, intercept, *args); args are Predictor objects
NewLinearModel(lm_type, intercept, args) ==
    [constructed |-> TRUE, lm_type |-> lm_type, intercept |-> intercept, predictors |-> args]

\* Validates with the check of the predictors' columns forgotten
Validates_InterceptOnly(self, objects, table) == self.intercept.t # "None"

\* the two assertions that open LinearModel.predict
Validates(self, objects, table) ==
    /\ self.intercept.t # "None"
    /\ \A k \in 1..Len(self.predictors) :
          LET p == objects[self.predictors[k]]
          IN  p.property_name.t # "None" => p.property_name.s \in table.columns

\* the outcome of predictor.predict(df) for each argument of the model, in order
Results(self, objects, table) ==
    [k \in 1..Len(self.predictors) |-> PredictorPredict(objects[self.predictors[k]], table)]

\* the first argument whose predict raises (0 when none does): the loop that
\* fills res_by_predictor ends there
FirstRaise(results) ==
    IF \A k \in 1..Len(results) : results[k].raised = "none" THEN 0
    ELSE CHOOSE k \in 1..Len(results) :
            /\ results[k].raised # "none"
            /\ \A j \in 1..(k - 1) : results[j].raised = "none"

\* res_by_predictor without its intercept column: a column is keyed by its
\* Predictor object, so an object listed twice keeps one column (the last assigned)
Frame(self, results) ==
    [o \in {self.predictors[k] : k \in 1..Len(self.predictors)} |->
        LET last == CHOOSE k \in 1..Len(self.predictors) :
                       /\ self.predictors[k] = o
                       /\ \A j \in (k + 1)..Len(self.predictors) : self.predictors[j] # o
        IN  results[last].col]

RECURSIVE SumOf(_, _)
\* the sum of the function f over the set S
SumOf(S, f) ==
    IF S = {} THEN 0
    ELSE LET x == CHOOSE y \in S : TRUE IN f[x] + SumOf(S \ {x}, f)

RECURSIVE ProductOf(_, _)
\* the product of the function f over the set S
ProductOf(S, f) ==
    IF S = {} THEN 1
    ELSE LET x == CHOOSE y \in S : TRUE IN f[x] * ProductOf(S \ {x}, f)

\* RowSum with the __intercept__ column forgotten
RowSum_WithoutIntercept(intercept, cols, i) ==
    LET present == {o \in DOMAIN cols : cols[o][i].t # "nan"}
        val == [o \in present |-> cols[o][i].n]
    IN  SumOf(present, val)

\* res_by_predictor.sum(axis=1, skipna=True) at row i
RowSum(intercept, cols, i) ==
    LET present == {o \in DOMAIN cols : cols[o][i].t # "nan"}
        val == [o \in present |-> cols[o][i].n]
    IN  intercept.n + SumOf(present, val)

\* RowProd with a missing entry counted as 0 instead of skipped
RowProd_MissingAsZero(intercept, cols, i) ==
    LET val == [o \in DOMAIN cols |-> IF cols[o][i].t = "nan" THEN 0 ELSE cols[o][i].n]
    IN  intercept.n * ProductOf(DOMAIN cols, val)

\* res_by_predictor.prod(axis=1, skipna=True) at row i
RowProd(intercept, cols, i) ==
    LET present == {o \in DOMAIN cols : cols[o][i].t # "nan"}
        val == [o \in present |-> cols[o][i].n]
    IN  intercept.n * ProductOf(present, val)

\* the transformation LinearModel.predict applies for its lm_type, at row i
Combine(lm_type, intercept, cols, i) ==
    CASE lm_type = "ADDITIVE" -> PyNum(RowSum(intercept, cols, i))
      [] lm_type = "LOGISTIC" ->
            LET odds == RowProd(intercept, cols, i) IN PyRatio(odds, 1 + odds)
      [] lm_type = "MULTIPLICATIVE" -> PyNum(RowProd(intercept, cols, i))

\* LinearModel.predict after its assertions, given the outcomes of the predictors
Transform(self, table, results) ==
    LET bad == FirstRaise(results)
    IN  IF bad > 0
        THEN [raised |-> results[bad].raised, col |-> <<>>,
              evaluated |-> SubSeq(self.predictors, 1, bad)]
        ELSE [raised |-> "none",
              col |-> [i \in 1..Len(table.rows) |->
                          Combine(self.lm_type, self.intercept, Frame(self, results), i)],
              evaluated |-> self.predictors]

\* LinearModel.predict(df): the exception raised, or the output column, and the
\* Predictor objects whose predict was called, in call order
LinearModelPredict(self, objects, table) ==
    IF ~Validates(self, objects, table)
    THEN [raised |-> "AssertionError", col |-> <<>>, evaluated |-> <<>>]
    ELSE Transform(self, table, Results(self, objects, table))

----------------------------------------------------------------------------
(* Inputs.                                                                 *)

sexName == <<"s", "e", "x">>
ageName == <<"a", "g", "e">>

\* the Predictor objects
Objects == {1, 2}

PropertyNames == {PyNone, PyStr(sexName), PyStr(ageName)}
Coefficients == {PyNum(2), PyNum(3)}
Intercepts == {PyNone, PyNum(2)}

\* 'M', '5': plain string literals;  5: a number
LitM == PyStr(<<"M">>)
Lit5 == PyStr(<<"5">>)
Num5 == PyNum(5)
\* '=="lit"': the raw-expression form of equality with the string lit
RawEquality(lit) == PyStr(<<"=", "=", "\"">> \o lit \o <<"\"">>)
\* '<5', '>=3'
RawLt5 == PyStr(<<"<", "5">>)
RawGe3 == PyStr(<<">", "=", "3">>)
\* 'sex == "M"' and 'sex == "M" | age < 5': whole-row expressions
ExprSexM == PyStr(sexName \o <<" ", "=", "=", " ", "\"", "M", "\"">>)
ExprSexMOrYoung == PyStr(ExprSexM.s \o <<" ", "|", " ">> \o ageName \o <<" ", "<", " ", "5">>)

\* the conditions handed to when() on a Predictor of the given property_name
ConditionsFor(property_name) ==
    CASE property_name = PyStr(sexName) ->
            {LitM, RawEquality(<<"M">>), RawLt5, PyBool(TRUE), PyNone, PyList}
      [] property_name = PyStr(ageName) ->
            {Lit5, RawLt5, RawGe3, Num5, PyNone, PyStr(<<>>)}
      [] OTHER -> {ExprSexM, ExprSexMOrYoung, PyNone}

\* the inputs of the scenario with a LinearModel: object 1 is a Predictor of sex
\* or an unnamed one, object 2 a Predictor of age
ModelPropertyNames == {PyNone, PyStr(sexName)}
ModelCoefficients == {PyNum(3)}
ModelConditionsFor(property_name) ==
    CASE property_name = PyStr(sexName) -> {LitM}
      [] property_name = PyStr(ageName) -> {RawLt5, Num5}
      [] OTHER -> {ExprSexM}

ColumnValues(c) ==
    IF c = sexName THEN {PyStr(<<"M">>), PyStr(<<"F">>)} ELSE {PyNum(3), PyNum(5)}

RowsOver(columns) ==
    {r \in [columns -> UNION {ColumnValues(c) : c \in columns}] :
        \A c \in columns : r[c] \in ColumnValues(c)}

SeqsUpTo(S, n) == UNION {[1..k -> S] : k \in 0..n}

TablesOver(columns, n) ==
    {[columns |-> columns, rows |-> rs] : rs \in SeqsUpTo(RowsOver(columns), n)}

\* the tables: both columns, or the sex column alone
Tables == TablesOver({sexName, ageName}, MaxRows) \cup TablesOver({sexName}, MaxRows)

----------------------------------------------------------------------------
(* State.  predictor[o] is Predictor object o; built[o] is the arguments   *)
(* of the when / otherwise calls on o that returned; model is the          *)
(* LinearModel; df is the table; ret is the outcome of the last call.      *)
(*                                                                         *)
(* Spec explores two scenarios.  In the first there is one Predictor,      *)
(* given up to MaxRules rules with conditions of every form.  In the       *)
(* second there are two Predictors of up to ModelMaxRules rules each and   *)
(* a LinearModel over them.  SpecEq is a third scenario: two Predictors    *)
(* of one property_name, one given a string literal and the other the      *)
(* raw-expression form of the same equality.  In every scenario the        *)
(* Predictors are configured before the LinearModel is constructed (the    *)
(* construction phase) and only evaluated after; once the LinearModel      *)
(* exists, Predictor.predict is called through LinearModel.predict.        *)

Return(op, self, raised, col, evaluated) ==
    [op |-> op, self |-> self, raised |-> raised, col |-> col, evaluated |-> evaluated]

NoReturn == Return("none", 0, "none", <<>>, <<>>)

\* Predictor.when(condition, value)
When(self, condition, value) == Coeff(self, condition, value)

\* Predictor.otherwise(value)
Otherwise(self, value) ==
    IF self.property_name.t = "None"
    THEN [raised |-> "AssertionError", self |-> self]
    ELSE Coeff(self, PyNone, value)

Alone == DOMAIN predictor = {1}

RuleBound == IF Alone THEN MaxRules ELSE ModelMaxRules

Record(o, r, condition, value) ==
    /\ predictor' = [predictor EXCEPT ![o] = r.self]
    /\ built' = IF r.raised = "none"
                THEN [built EXCEPT ![o] = Append(@, [cond |-> condition, coef |-> value])]
                ELSE built

CallWhen(o, condition, value) ==
    /\ ~model.constructed
    /\ Len(predictor[o].conditions) < RuleBound
    /\ LET r == When(predictor[o], condition, value)
       IN  /\ Record(o, r, condition, value)
           /\ ret' = Return("when", o, r.raised, <<>>, <<>>)
    /\ UNCHANGED <<model, df>>

CallOtherwise(o, value) ==
    /\ ~model.constructed
    /\ Len(predictor[o].conditions) < RuleBound
    /\ LET r == Otherwise(predictor[o], value)
       IN  /\ Record(o, r, PyNone, value)
           /\ ret' = Return("otherwise", o, r.raised, <<>>, <<>>)
    /\ UNCHANGED <<model, df>>

\* CallPredict with predict consuming the rules it has evaluated
CallPredict_Consuming(o) ==
    /\ LET r == PredictorPredict(predictor[o], df)
       IN  ret' = Return("Predictor.predict", o, r.raised, r.col, <<>>)
    /\ predictor' = [predictor EXCEPT ![o].conditions = <<>>]
    /\ UNCHANGED <<built, model, df>>

CallPredict(o) ==
    /\ LET r == PredictorPredict(predictor[o], df)
       IN  ret' = Return("Predictor.predict", o, r.raised, r.col, <<>>)
    /\ UNCHANGED <<predictor, built, model, df>>

Construct(lm_type, intercept, args) ==
    /\ ~Alone
    /\ ~model.constructed
    /\ model' = NewLinearModel(lm_type, intercept, args)
    /\ ret' = Return("LinearModel", 0, "none", <<>>, <<>>)
    /\ UNCHANGED <<predictor, built, df>>

CallModelPredict ==
    /\ model.constructed
    /\ LET r == LinearModelPredict(model, predictor, df)
       IN  ret' = Return("LinearModel.predict", 0, r.raised, r.col, r.evaluated)
    /\ UNCHANGED <<predictor, built, model, df>>

\* One Predictor of any property_name, and any table.
InitPredictor ==
    \E name \in PropertyNames, table \in Tables :
        /\ predictor = [o \in {1} |-> NewPredictor(name)]
        /\ built = [o \in {1} |-> <<>>]
        /\ model = NoModel
        /\ df = table
        /\ ret = NoReturn

\* Two Predictors, no LinearModel yet, and any table.
InitModel ==
    \E name \in ModelPropertyNames, table \in Tables :
        /\ predictor = [o \in Objects |-> NewPredictor(IF o = 1 THEN name ELSE PyStr(ageName))]
        /\ built = [o \in Objects |-> <<>>]
        /\ model = NoModel
        /\ df = table
        /\ ret = NoReturn

Init == InitPredictor \/ InitModel

Conditions(o) ==
    IF Alone THEN ConditionsFor(predictor[o].property_name)
    ELSE ModelConditionsFor(predictor[o].property_name)

Values == IF Alone THEN Coefficients ELSE ModelCoefficients

Next ==
    \/ \E o \in DOMAIN predictor, v \in Values : \E c \in Conditions(o) : CallWhen(o, c, v)
    \/ \E o \in DOMAIN predictor, v \in Values : CallOtherwise(o, v)
    \/ \E o \in DOMAIN predictor : ~model.constructed /\ CallPredict(o)
    \/ \E lm_type \in LinearModelTypes, intercept \in Intercepts :
          \E args \in SeqsUpTo(Objects, MaxPredictors) : Construct(lm_type, intercept, args)
    \/ CallModelPredict

Spec == Init /\ [][Next]_vars

\* the string literals handed to when() in the equality scenario
StringLiterals == {<<"M">>, <<"F">>, <<"5">>}

\* Two Predictors of one named property, and any table.
InitEq ==
    \E name \in PropertyNames \ {PyNone}, table \in Tables :
        /\ predictor = [o \in Objects |-> NewPredictor(name)]
        /\ built = [o \in Objects |-> <<>>]
        /\ model = NoModel
        /\ df = table
        /\ ret = NoReturn

\* object 1 is given literals in the plain form, object 2 in the raw-expression form
NextEq ==
    \/ \E lit \in StringLiterals, v \in Coefficients : CallWhen(1, PyStr(lit), v)
    \/ \E lit \in StringLiterals, v \in Coefficients : CallWhen(2, RawEquality(lit), v)
    \/ \E o \in Objects : CallPredict(o)

SpecEq == InitEq /\ [][NextEq]_vars

----------------------------------------------------------------------------
(* Properties.                                                             *)

Range(q) == {q[k] : k \in 1..Len(q)}
Named(p) == p.property_name.t # "None"
RowIndices == 1..Len(df.rows)
ReturnedFrom(op) == ret.op = op /\ ret.raised = "none"

\* the row satisfies the rule's own condition (an unconditioned rule is satisfied
\* by every row)
Satisfies(rule, row) ==
    IF ~Truthy(rule.cond) THEN TRUE
    ELSE LET e == Parse(rule.cond.s)
         IN  e.ok /\ EvalRow(e.node, row, FALSE) = PyBool(TRUE)

\* the coefficient of the first rule the row satisfies, NaN when it satisfies none
FirstMatch(conditions, row) ==
    LET hits == {k \in 1..Len(conditions) : Satisfies(conditions[k], row)}
    IN  IF hits = {} THEN NaN
        ELSE conditions[CHOOSE k \in hits : \A j \in hits : k <= j].coef

\* every rule of the Predictor has a condition (it holds no unconditioned rule)
AllConditioned(p) ==
    \A k \in 1..Len(p.conditions) : Truthy(p.conditions[k].cond)

\* C1: whenever Predictor.predict returns a column, each row's entry is the
\* coefficient of the first rule, in construction order, whose condition the row
\* satisfies, and NaN ("no value") when the row satisfies no rule's condition.
\* Stated for the Predictors that are named or hold conditioned rules only, so
\* that an unconditioned rule of an unnamed Predictor plays no part.
C1_ShortCircuit ==
    /\ ReturnedFrom("Predictor.predict")
    /\ Named(predictor[ret.self]) \/ AllConditioned(predictor[ret.self])
    => \A i \in RowIndices :
          ret.col[i] = FirstMatch(predictor[ret.self].conditions, df.rows[i])

\* the values the predictors of the model produce for row i: one per distinct
\* Predictor object, NaN entries left out
PresentAt(i) ==
    LET cols == [o \in Range(model.predictors) |-> PredictorPredict(predictor[o], df).col]
    IN  [o \in {x \in Range(model.predictors) : cols[x][i] # NaN} |-> cols[o][i].n]

\* C2: whenever LinearModel.predict returns a column, each row's entry combines the
\* intercept with exactly the values the predictors produced for that row: their
\* sum plus the intercept (ADDITIVE), their product times the intercept
\* (MULTIPLICATIVE), or o / (1 + o) for o that product (LOGISTIC).
C2_Combination ==
    ReturnedFrom("LinearModel.predict") =>
        \A i \in RowIndices :
            LET present == PresentAt(i)
                c == model.intercept.n
                total == c + SumOf(DOMAIN present, present)
                odds == c * ProductOf(DOMAIN present, present)
            IN  CASE model.lm_type = "ADDITIVE" -> ret.col[i] = PyNum(total)
                  [] model.lm_type = "MULTIPLICATIVE" -> ret.col[i] = PyNum(odds)
                  [] model.lm_type = "LOGISTIC" -> ret.col[i] = PyRatio(odds, 1 + odds)

\* a row gets a value from one predictor of the model and none from another
C2_Witness ==
    /\ ReturnedFrom("LinearModel.predict")
    /\ model.lm_type = "LOGISTIC"
    /\ Range(model.predictors) = {1, 2}
    /\ \E i \in RowIndices : Cardinality(DOMAIN PresentAt(i)) = 1

\* the intercept is unset, or a named predictor of the model has no column in df
Invalid ==
    \/ model.intercept = PyNone
    \/ \E o \in Range(model.predictors) :
          Named(predictor[o]) /\ predictor[o].property_name.s \notin df.columns

\* C3: a LinearModel.predict call on a model without intercept, or with a named
\* predictor whose column the table lacks, raises, calls no predictor's predict
\* and returns no column.
C3_FailFast ==
    ret.op = "LinearModel.predict" /\ Invalid =>
        ret.raised # "none" /\ ret.evaluated = <<>> /\ ret.col = <<>>

\* the intercept is set, the first predictor has its column and rules, a later one
\* has no column in the table, and the call raised
C3_Witness ==
    /\ ret.op = "LinearModel.predict"
    /\ ret.raised = "AssertionError"
    /\ model.intercept # PyNone
    /\ model.predictors = <<1, 2>>
    /\ Len(predictor[1].conditions) > 0
    /\ Len(predictor[2].conditions) > 0
    /\ predictor[2].property_name.s \notin df.columns
    /\ Len(df.rows) > 0

DefaultCount(p) ==
    Cardinality({k \in 1..Len(p.conditions) : ~Truthy(p.conditions[k].cond)})

\* C4: every Predictor holds at most one unconditioned rule, and none when its
\* property_name is unset.
C4_AtMostOneDefault ==
    \A o \in DOMAIN predictor :
        /\ DefaultCount(predictor[o]) <= 1
        /\ ~Named(predictor[o]) => DefaultCount(predictor[o]) = 0

\* every predictor of the model yields NaN for row i
AllMissingAt(i) ==
    /\ model.predictors # <<>>
    /\ DOMAIN PresentAt(i) = {}

\* the numbers a and b are equal
SameNumber(a, b) == a.t = "num" /\ b.t = "num" /\ a.n * b.d = b.n * a.d

\* C5 as stated: a row for which every predictor yields NaN gets exactly the
\* intercept, under every composition type.
C5_MissingIsIntercept ==
    ReturnedFrom("LinearModel.predict") =>
        \A i \in RowIndices : AllMissingAt(i) => SameNumber(ret.col[i], model.intercept)

\* C5 amended: such a row gets exactly the intercept c under ADDITIVE and
\* MULTIPLICATIVE, and c / (1 + c) under LOGISTIC.
C5_MissingIsIdentity ==
    ReturnedFrom("LinearModel.predict") =>
        \A i \in RowIndices : AllMissingAt(i) =>
            IF model.lm_type = "LOGISTIC"
            THEN SameNumber(ret.col[i], PyRatio(model.intercept.n, 1 + model.intercept.n))
            ELSE SameNumber(ret.col[i], model.intercept)

\* every predictor of a model of each kind of arithmetic left a row without value
C5_Witness ==
    /\ ReturnedFrom("LinearModel.predict")
    /\ model.lm_type \in {"ADDITIVE", "LOGISTIC"}
    /\ Range(model.predictors) = {1, 2}
    /\ \A o \in Objects : Len(predictor[o].conditions) > 0
    /\ \E i \in RowIndices : AllMissingAt(i)

IsPredict(r) == r.op \in {"Predictor.predict", "LinearModel.predict"}

\* C6: a predict call leaves every Predictor, the LinearModel and the table as they
\* were, and a predict call that follows a predict call on the same object returns
\* what that one returned.
C6_PredictIsPure ==
    [][IsPredict(ret') =>
          /\ predictor' = predictor
          /\ model' = model
          /\ df' = df
          /\ (IsPredict(ret) /\ ret.op = ret'.op /\ ret.self = ret'.self => ret' = ret)]_vars

\* a Predictor with two rules was evaluated on a table with rows
C6_Witness ==
    /\ ReturnedFrom("Predictor.predict")
    /\ Len(predictor[ret.self].conditions) = 2
    /\ predictor[ret.self].else_condition_supplied
    /\ \E i \in RowIndices : ret.col[i] # NaN
    /\ built[ret.self] # <<>>

\* the number of opening minus closing parentheses among the first k characters
Nesting(chars, k) ==
    Cardinality({i \in 1..k : chars[i] = "("}) - Cardinality({i \in 1..k : chars[i] = ")"})

Balanced(chars) ==
    /\ \A k \in 1..Len(chars) : Nesting(chars, k) >= 0
    /\ Nesting(chars, Len(chars)) = 0

\* C7: every condition a named Predictor stores for a when() call is a complete
\* expression with balanced parentheses.
C7_WellFormedConditions ==
    \A o \in DOMAIN predictor :
        Named(predictor[o]) =>
            \A k \in 1..Len(predictor[o].conditions) :
                LET cond == predictor[o].conditions[k].cond
                IN  Truthy(cond) => Balanced(cond.s) /\ Parse(cond.s).ok

\* object 1 was given the literal lit and object 2 the raw-expression form of
\* equality with lit, with one coefficient
BuiltFrom(lit) ==
    \E v \in Coefficients :
        /\ built[1] = <<[cond |-> PyStr(lit), coef |-> v]>>
        /\ built[2] = <<[cond |-> RawEquality(lit), coef |-> v]>>

\* the two Predictors predict the same on the table
SameColumn == PredictorPredict(predictor[1], df) = PredictorPredict(predictor[2], df)

\* the two stored conditions are one expression, up to white space
SameCondition ==
    Tokens(predictor[1].conditions[1].cond.s, 1) = Tokens(predictor[2].conditions[1].cond.s, 1)

\* C8 as stated: for any string literal, the plain form and the raw-expression
\* form predict the same column on every table.
C8_ShorthandAnyLiteral ==
    \A lit \in StringLiterals : BuiltFrom(lit) => SameColumn

\* a literal that _coeff quotes: not empty, not numeric, no leading operator character
PlainLiteral(lit) ==
    Len(lit) > 0 /\ ~IsNumeric(lit) /\ lit[1] \notin OperatorChars

\* C8 amended: for any string literal that is not empty, not numeric
\* (str.isnumeric) and does not begin with one of = < > ~ ( . the two forms store
\* the same expression and predict the same column on every table.
C8_ShorthandPlainLiteral ==
    \A lit \in StringLiterals :
        PlainLiteral(lit) /\ BuiltFrom(lit) => SameCondition /\ SameColumn

\* both forms were built for 'M' and evaluated on a table where a row matches
C8_Witness ==
    /\ BuiltFrom(<<"M">>)
    /\ ReturnedFrom("Predictor.predict")
    /\ \E i \in RowIndices : ret.col[i] # NaN
    /\ \E i \in RowIndices : ret.col[i] = NaN

\* the members of the set I of row indices, ascending
Ascending(I) ==
    CHOOSE q \in [1..Cardinality(I) -> I] :
        \A j \in 1..(Cardinality(I) - 1) : q[j] < q[j + 1]

Partition(I) == [columns |-> df.columns, rows |-> [j \in 1..Cardinality(I) |-> df.rows[Ascending(I)[j]]]]

\* the last predict call repeated on the rows I alone
OnPartition(I) ==
    IF ret.op = "Predictor.predict"
    THEN PredictorPredict(predictor[ret.self], Partition(I))
    ELSE LinearModelPredict(model, predictor, Partition(I))

\* C9: when a predict call (of a Predictor or of the LinearModel) returns a column,
\* the same call on any part of the table's rows returns, for each row of the part,
\* what the call on the whole table returns for it: the parts of any split of the
\* rows reassemble to the whole column, and a row's entry depends on that row alone.
C9_RowPartition ==
    IsPredict(ret) /\ ret.raised = "none" =>
        \A I \in SUBSET RowIndices :
            LET part == OnPartition(I)
            IN  /\ part.raised = "none"
                /\ part.col = [j \in 1..Cardinality(I) |-> ret.col[Ascending(I)[j]]]

\* a Predictor with a rule and a default gave the two rows of a table different values
C9_Witness ==
    /\ ReturnedFrom("Predictor.predict")
    /\ Len(df.rows) = 2
    /\ Len(predictor[ret.self].conditions) = 2
    /\ ret.col[1] # ret.col[2]
    /\ ret.col[1] # NaN /\ ret.col[2] # NaN

AllValued(r) == r.raised = "none" /\ \A i \in 1..Len(r.col) : r.col[i] # NaN

\* the condition is a literal (a string that _coeff reads as a literal, a bool or
\* a number), not an expression fragment
IsLiteral(condition) ==
    \/ condition.t \in {"bool", "num"}
    \/ condition.t = "str" /\ Len(condition.s) > 0 /\ condition.s[1] \notin OperatorChars

\* C10: once a named Predictor holds its default, a when() call that adds a rule
\* for a literal changes nothing about predict on a table that has the Predictor's
\* column: it returns the column it returned before, with a value in every row.
C10_LaterRulesDead ==
    [][\A o \in DOMAIN predictor :
          /\ Named(predictor[o])
          /\ predictor[o].else_condition_supplied
          /\ predictor[o].property_name.s \in df.columns
          /\ ret'.op = "when" /\ ret'.self = o /\ ret'.raised = "none"
          /\ Len(built'[o]) = Len(built[o]) + 1
          /\ IsLiteral(built'[o][Len(built'[o])].cond)
          => /\ PredictorPredict(predictor'[o], df) = PredictorPredict(predictor[o], df)
             /\ AllValued(PredictorPredict(predictor'[o], df))]_vars

====
